---- MODULE Spec2Model ----
(***************************************************************************)
(* The Content-Type field parser of mail-parser                            *)
(* (src/parsers/fields/content_type.rs): MessageStream::parse_content_type *)
(* and the ContentTypeParser it drives, as a state machine that reads one  *)
(* byte of the field per step.                                             *)
(*                                                                         *)
(* Bytes are the integers 0..255, text is a sequence of Unicode code       *)
(* points, Option<T> is a sequence of length 0 (None) or 1 (Some).         *)
(***************************************************************************)
EXTENDS Integers, Sequences, FiniteSets, TLC

VARIABLES
    input,        \* how the field's bytes were put together (never read by the parser)
    data,         \* MessageStream.data: the bytes of the field
    pos,          \* MessageStream: number of bytes consumed, the value of offset()
    restore_pos,  \* MessageStream: the position saved by checkpoint()
    parser,       \* the ContentTypeParser of this call
    ret           \* what parse_content_type returned (kind "Running" until it does)

vars == <<input, data, pos, restore_pos, parser, ret>>

-----------------------------------------------------------------------------
(* Bytes *)

SP == 32
TAB == 9
LF == 10
CR == 13
SLASH == 47
SEMI == 59
STAR == 42
EQ == 61
DQUOTE == 34
BSLASH == 92
APOS == 39
LPAREN == 40
RPAREN == 41
QMARK == 63
UPPER_A == 65
UPPER_Z == 90

\* The printable ASCII characters 32..95 and 97..126, in byte order.
PrintableLow ==
    " !\"#$%&'()*+,-./0123456789:;<=>?@ABCDEFGHIJKLMNOPQRSTUVWXYZ[\\]^_"
PrintableHigh == "abcdefghijklmnopqrstuvwxyz{|}~"

\* The byte of a one-character string.
Ord(c) ==
    IF c = "\n" THEN 10
    ELSE IF c = "\r" THEN 13
    ELSE IF c = "\t" THEN 9
    ELSE IF \E i \in 1..Len(PrintableHigh) : SubSeq(PrintableHigh, i, i) = c
    THEN 96 + (CHOOSE i \in 1..Len(PrintableHigh) : SubSeq(PrintableHigh, i, i) = c)
    ELSE 31 + (CHOOSE i \in 1..Len(PrintableLow) : SubSeq(PrintableLow, i, i) = c)

\* str.as_bytes() of an ASCII string literal.
B(s) == [i \in 1..Len(s) |-> Ord(SubSeq(s, i, i))]

-----------------------------------------------------------------------------
(* Option, slices, strings *)

None == <<>>
Some(x) == <<x>>
IsSome(o) == o # <<>>
IsNone(o) == o = <<>>
Unwrap(o) == o[1]

\* &d[from..to] is in range (Rust panics otherwise).
SliceOk(d, from, to) == from >= 0 /\ from <= to /\ to <= Len(d)
\* &d[from..to], 0-based and half-open as in Rust.
Slice(d, from, to) == SubSeq(d, from + 1, to)

RECURSIVE Concat(_)
\* [T]::concat of a list of strings.
Concat(ss) == IF ss = <<>> THEN <<>> ELSE Head(ss) \o Concat(Tail(ss))

\* u8::make_ascii_lowercase on every element.
make_ascii_lowercase(s) ==
    [i \in 1..Len(s) |-> IF s[i] >= UPPER_A /\ s[i] <= UPPER_Z THEN s[i] + 32 ELSE s[i]]

\* The closure of add_value's filter: drops CR and LF.
FilterCrLf(s) == SelectSeq(s, LAMBDA ch : ch # CR /\ ch # LF)

IsCont(b) == b >= 128 /\ b <= 191

RECURSIVE Utf8LossyFrom(_, _)
\* String::from_utf8_lossy from index i on: every maximal invalid part
\* becomes U+FFFD (65533).
Utf8LossyFrom(b, i) ==
    IF i > Len(b) THEN <<>>
    ELSE LET c == b[i]
             n == Len(b)
             lo2 == IF c = 224 THEN 160 ELSE IF c = 240 THEN 144 ELSE 128
             hi2 == IF c = 237 THEN 159 ELSE IF c = 244 THEN 143 ELSE 191
             ok2 == i + 1 <= n /\ b[i + 1] >= lo2 /\ b[i + 1] <= hi2
             ok3 == ok2 /\ i + 2 <= n /\ IsCont(b[i + 2])
             ok4 == ok3 /\ i + 3 <= n /\ IsCont(b[i + 3])
         IN  IF c < 128 THEN <<c>> \o Utf8LossyFrom(b, i + 1)
             ELSE IF c >= 194 /\ c <= 223 THEN
                 IF ok2 THEN <<(c - 192) * 64 + (b[i + 1] - 128)>> \o Utf8LossyFrom(b, i + 2)
                 ELSE <<65533>> \o Utf8LossyFrom(b, i + 1)
             ELSE IF c >= 224 /\ c <= 239 THEN
                 IF ok3 THEN <<(c - 224) * 4096 + (b[i + 1] - 128) * 64 + (b[i + 2] - 128)>>
                             \o Utf8LossyFrom(b, i + 3)
                 ELSE IF ok2 THEN <<65533>> \o Utf8LossyFrom(b, i + 2)
                 ELSE <<65533>> \o Utf8LossyFrom(b, i + 1)
             ELSE IF c >= 240 /\ c <= 244 THEN
                 IF ok4 THEN <<(c - 240) * 262144 + (b[i + 1] - 128) * 4096
                               + (b[i + 2] - 128) * 64 + (b[i + 3] - 128)>>
                             \o Utf8LossyFrom(b, i + 4)
                 ELSE IF ok3 THEN <<65533>> \o Utf8LossyFrom(b, i + 3)
                 ELSE IF ok2 THEN <<65533>> \o Utf8LossyFrom(b, i + 2)
                 ELSE <<65533>> \o Utf8LossyFrom(b, i + 1)
             ELSE <<65533>> \o Utf8LossyFrom(b, i + 1)

Utf8Lossy(b) == Utf8LossyFrom(b, 1)

\* One code point as UTF-8 bytes.
Utf8EncodeChar(c) ==
    IF c < 128 THEN <<c>>
    ELSE IF c < 2048 THEN <<192 + (c \div 64), 128 + (c % 64)>>
    ELSE IF c < 65536 THEN
        <<224 + (c \div 4096), 128 + ((c \div 64) % 64), 128 + (c % 64)>>
    ELSE <<240 + (c \div 262144), 128 + ((c \div 4096) % 64),
           128 + ((c \div 64) % 64), 128 + (c % 64)>>

RECURSIVE as_bytes(_)
\* str::as_bytes: the UTF-8 bytes of a string.
as_bytes(s) == IF s = <<>> THEN <<>> ELSE Utf8EncodeChar(Head(s)) \o as_bytes(Tail(s))

RECURSIVE SeqLess(_, _)
\* Ord for str: lexicographic by byte (the same order as by code point).
SeqLess(a, b) ==
    IF b = <<>> THEN FALSE
    ELSE IF a = <<>> THEN TRUE
    ELSE IF Head(a) # Head(b) THEN Head(a) < Head(b)
    ELSE SeqLess(Tail(a), Tail(b))

RECURSIVE StripZeros(_)
\* The digits s without their leading zeros.
StripZeros(s) == IF s # <<>> /\ Head(s) = 48 THEN StripZeros(Tail(s)) ELSE s

IsDigit(b) == b >= 48 /\ b <= 57

\* A u32 is kept as its decimal digits without leading zeros (0 is the
\* empty sequence): 2^32 - 1 does not fit the checker's integers.
U32Zero == <<>>
U32MaxDigits == B("4294967295")
FitsU32(n) == Len(n) < Len(U32MaxDigits) \/ (Len(n) = Len(U32MaxDigits) /\ ~SeqLess(U32MaxDigits, n))
U32Less(a, b) == Len(a) < Len(b) \/ (Len(a) = Len(b) /\ SeqLess(a, b))

\* str::parse::<u32>().unwrap_or(0): an optional '+', then one or more
\* digits, with a value that fits 32 bits; anything else gives 0.
parse_u32_or_0(s) ==
    LET digits == IF s # <<>> /\ Head(s) = 43 THEN Tail(s) ELSE s
    IN  IF digits = <<>> \/ \E i \in 1..Len(digits) : ~IsDigit(digits[i]) THEN U32Zero
        ELSE IF FitsU32(StripZeros(digits)) THEN StripZeros(digits) ELSE U32Zero

\* Ord for Continuation, a tuple (name, position, value).
ContinuationLess(x, y) ==
    IF x[1] # y[1] THEN SeqLess(x[1], y[1])
    ELSE IF x[2] # y[2] THEN U32Less(x[2], y[2])
    ELSE SeqLess(x[3], y[3])

-----------------------------------------------------------------------------
(* The collaborators: hex, charset and encoded-word decoders *)

HexVal(b) ==
    IF b >= 48 /\ b <= 57 THEN b - 48
    ELSE IF b >= 65 /\ b <= 70 THEN b - 55
    ELSE IF b >= 97 /\ b <= 102 THEN b - 87
    ELSE -1

RECURSIVE DecodeHexFrom(_, _)
DecodeHexFrom(b, i) ==
    IF i > Len(b) THEN [ok |-> TRUE, out |-> <<>>]
    ELSE IF b[i] = 37 THEN
        IF i + 2 <= Len(b) /\ HexVal(b[i + 1]) >= 0 /\ HexVal(b[i + 2]) >= 0
        THEN LET r == DecodeHexFrom(b, i + 3)
             IN  [ok |-> r.ok, out |-> <<16 * HexVal(b[i + 1]) + HexVal(b[i + 2])>> \o r.out]
        ELSE [ok |-> FALSE, out |-> <<>>]
    ELSE LET r == DecodeHexFrom(b, i + 1) IN [ok |-> r.ok, out |-> <<b[i]>> \o r.out]

\* decode_hex: (true, bytes) with every %XX turned into its byte, or
\* (false, _) when a '%' is not followed by two hex digits.
decode_hex(b) == DecodeHexFrom(b, 1)

\* The decoders of the charset registry the model knows.
Utf8Names == {B("utf-8"), B("us-ascii")}
Latin1Names == {B("iso-8859-1")}

\* charset_decoder: the decoder registered under a name, if any.
charset_decoder(name) ==
    IF make_ascii_lowercase(name) \in Utf8Names THEN Some("utf8")
    ELSE IF make_ascii_lowercase(name) \in Latin1Names THEN Some("latin1")
    ELSE None

\* A decoder applied to bytes: ISO-8859-1 maps every byte to the code
\* point of the same number.
Decode(decoder, bytes) == IF decoder = "latin1" THEN bytes ELSE Utf8Lossy(bytes)

RECURSIVE IndexFrom(_, _, _)
\* The first index >= i of byte ch in d, or 0.
IndexFrom(d, ch, i) ==
    IF i > Len(d) THEN 0 ELSE IF d[i] = ch THEN i ELSE IndexFrom(d, ch, i + 1)

RECURSIVE DecodeQFrom(_, _)
\* The Q encoding: '_' is a space, =XX a byte.
DecodeQFrom(b, i) ==
    IF i > Len(b) THEN [ok |-> TRUE, out |-> <<>>]
    ELSE IF b[i] = EQ THEN
        IF i + 2 <= Len(b) /\ HexVal(b[i + 1]) >= 0 /\ HexVal(b[i + 2]) >= 0
        THEN LET r == DecodeQFrom(b, i + 3)
             IN  [ok |-> r.ok, out |-> <<16 * HexVal(b[i + 1]) + HexVal(b[i + 2])>> \o r.out]
        ELSE [ok |-> FALSE, out |-> <<>>]
    ELSE LET r == DecodeQFrom(b, i + 1)
         IN  [ok |-> r.ok, out |-> <<IF b[i] = 95 THEN SP ELSE b[i]>> \o r.out]

B64Val(c) ==
    IF c >= 65 /\ c <= 90 THEN c - 65
    ELSE IF c >= 97 /\ c <= 122 THEN c - 71
    ELSE IF c >= 48 /\ c <= 57 THEN c + 4
    ELSE IF c = 43 THEN 62
    ELSE IF c = 47 THEN 63
    ELSE -1

RECURSIVE DecodeBFrom(_, _)
\* The B encoding (base64) of the unpadded text b from index i on.
DecodeBFrom(b, i) ==
    LET left == Len(b) - i + 1
        v(k) == B64Val(b[i + k])
    IN  IF left <= 0 THEN [ok |-> TRUE, out |-> <<>>]
        ELSE IF left = 1 THEN [ok |-> FALSE, out |-> <<>>]
        ELSE IF left = 2 THEN [ok |-> TRUE, out |-> <<(v(0) * 64 + v(1)) \div 16>>]
        ELSE IF left = 3 THEN
            LET n == (v(0) * 4096 + v(1) * 64 + v(2)) \div 4
            IN  [ok |-> TRUE, out |-> <<n \div 256, n % 256>>]
        ELSE LET n == v(0) * 262144 + v(1) * 4096 + v(2) * 64 + v(3)
                 r == DecodeBFrom(b, i + 4)
             IN  [ok |-> r.ok, out |-> <<n \div 65536, (n \div 256) % 256, n % 256>> \o r.out]

RECURSIVE StripPad(_)
StripPad(b) == IF b # <<>> /\ b[Len(b)] = EQ THEN StripPad(SubSeq(b, 1, Len(b) - 1)) ELSE b

\* MessageStream::decode_rfc2047 with the cursor at p, just after the '=' of
\* a candidate "=?charset?encoding?text?=": on success the decoded text and
\* the cursor after the closing "?=".
decode_rfc2047(d, p) ==
    LET q0 == p + 1
        q1 == IndexFrom(d, QMARK, q0 + 1)
        q2 == q1 + 2
        q3 == IndexFrom(d, QMARK, q2 + 1)
        star == IndexFrom(SubSeq(d, q0 + 1, q1 - 1), STAR, 1)
        charset == IF star = 0 THEN SubSeq(d, q0 + 1, q1 - 1) ELSE SubSeq(d, q0 + 1, q0 + star - 1)
        enc == d[q1 + 1]
        text == SubSeq(d, q2 + 1, q3 - 1)
        shaped ==
            /\ q0 <= Len(d) /\ d[q0] = QMARK
            /\ q1 > q0 + 1
            /\ charset # <<>>
            /\ \A i \in 1..Len(charset) : charset[i] \notin {LF, SP}
            /\ q2 <= Len(d) /\ d[q2] = QMARK
            /\ enc \in {81, 113, 66, 98}
            /\ q3 > 0 /\ q3 + 1 <= Len(d) /\ d[q3 + 1] = EQ
            /\ \A i \in 1..Len(text) : text[i] \notin {LF, SP}
        isB == enc \in {66, 98}
        bytes ==
            IF isB THEN
                IF \E i \in 1..Len(StripPad(text)) : B64Val(StripPad(text)[i]) < 0
                THEN [ok |-> FALSE, out |-> <<>>]
                ELSE DecodeBFrom(StripPad(text), 1)
            ELSE DecodeQFrom(text, 1)
        decoder == charset_decoder(charset)
    IN  IF shaped /\ bytes.ok
        THEN [ok |-> TRUE,
              token |-> IF IsSome(decoder) THEN Decode(Unwrap(decoder), bytes.out)
                        ELSE Utf8Lossy(bytes.out),
              pos |-> q3 + 1]
        ELSE [ok |-> FALSE, token |-> <<>>, pos |-> p]

\* MessageStream::peek_next_is_space with the cursor at p.
peek_next_is_space(d, p) == p + 1 <= Len(d) /\ d[p + 1] \in {SP, TAB}

\* MessageStream::peek_char(ch) with the cursor at p.
peek_char(d, p, ch) == p + 1 <= Len(d) /\ d[p + 1] = ch

-----------------------------------------------------------------------------
(* ContentTypeParser *)

ContentState ==
    {"Type", "SubType", "AttributeName", "AttributeValue", "AttributeQuotedValue", "Comment"}

\* The parser as parse_content_type constructs it. The field panic is "" until
\* an operation panics, and then says where.
NewParser ==
    [state |-> "Type",
     state_stack |-> <<>>,
     c_type |-> None,
     c_subtype |-> None,
     attr_name |-> None,
     attr_charset |-> None,
     attr_position |-> U32Zero,
     attributes |-> <<>>,
     values |-> <<>>,
     continuations |-> None,
     is_continuation |-> FALSE,
     is_encoded_attribute |-> FALSE,
     is_lower_case |-> TRUE,
     is_token_start |-> TRUE,
     is_escaped |-> FALSE,
     remove_crlf |-> FALSE,
     token_start |-> 0,
     token_end |-> 0,
     panic |-> ""]

Panic(p, where) == [p EXCEPT !.panic = where]

reset_parser(p) == [p EXCEPT !.token_start = 0, !.is_token_start = TRUE]

\* The pending token is a slice of the data.
TokenOk(p, d) == SliceOk(d, p.token_start - 1, p.token_end)
\* String::from_utf8_lossy(&stream.data[token_start - 1..token_end])
Token(p, d) == Utf8Lossy(Slice(d, p.token_start - 1, p.token_end))

\* add_attribute: the new parser and the returned bool.
add_attribute(p, d) ==
    IF p.token_start > 0 THEN
        IF ~TokenOk(p, d) THEN [p |-> Panic(p, "add_attribute: slice"), r |-> FALSE]
        ELSE
            LET attr == IF ~p.is_lower_case THEN make_ascii_lowercase(Token(p, d))
                        ELSE Token(p, d)
                p1 == [p EXCEPT !.is_lower_case = TRUE]
            IN  IF p.state = "AttributeName"
                THEN [p |-> reset_parser([p1 EXCEPT !.attr_name = Some(attr)]), r |-> TRUE]
                ELSE IF p.state = "Type"
                THEN [p |-> reset_parser([p1 EXCEPT !.c_type = Some(attr)]), r |-> TRUE]
                ELSE IF p.state = "SubType"
                THEN [p |-> reset_parser([p1 EXCEPT !.c_subtype = Some(attr)]), r |-> TRUE]
                ELSE [p |-> Panic(p1, "add_attribute: unreachable"), r |-> FALSE]
    ELSE [p |-> p, r |-> FALSE]

HasAttribute(attributes, name) == \E i \in 1..Len(attributes) : attributes[i][1] = name

add_attribute_parameter(p, d) ==
    IF p.token_start > 0 THEN
        IF ~TokenOk(p, d) THEN Panic(p, "add_attribute_parameter: slice")
        ELSE
            LET attr_part == Token(p, d)
                attr_name == (IF IsSome(p.attr_name) THEN Unwrap(p.attr_name) ELSE B("unknown"))
                             \o B("-language")
            IN  IF IsNone(p.attr_charset)
                THEN reset_parser([p EXCEPT !.attr_charset = Some(attr_part)])
                ELSE IF ~HasAttribute(p.attributes, attr_name)
                THEN reset_parser(
                        [p EXCEPT !.attributes = Append(@, <<attr_name, attr_part>>)])
                ELSE reset_parser([p EXCEPT !.values = @ \o <<B("'"), attr_part>>])
    ELSE p

\* add_partial_value, with offset the stream's offset().
\* add_partial_value that drops the pending token.
add_partial_value_dropping(p, d, offset, to_cur_pos) ==
    IF p.token_start > 0 THEN reset_parser(p) ELSE p

add_partial_value(p, d, offset, to_cur_pos) ==
    IF p.token_start > 0 THEN
        LET in_quote == p.state = "AttributeQuotedValue"
            to == IF in_quote /\ to_cur_pos THEN offset - 1 ELSE p.token_end
        IN  IF ~SliceOk(d, p.token_start - 1, to) THEN Panic(p, "add_partial_value: slice")
            ELSE reset_parser(
                    [p EXCEPT !.values =
                        @ \o <<Utf8Lossy(Slice(d, p.token_start - 1, to))>>
                          \o (IF ~in_quote THEN <<B(" ")>> ELSE <<>>)])
    ELSE p

\* DecodeSegment that ignores the charset of the segment.
DecodeSegmentIgnoringCharset(p, value) ==
    LET hex == decode_hex(as_bytes(value))
    IN  IF ~hex.ok THEN value ELSE Utf8Lossy(hex.out)

\* The value of an encoded segment (add_value, the is_encoded_attribute branch).
DecodeSegment(p, value) ==
    LET hex == decode_hex(as_bytes(value))
        decoder == IF IsSome(p.attr_charset)
                   THEN charset_decoder(as_bytes(Unwrap(p.attr_charset)))
                   ELSE None
    IN  IF ~hex.ok THEN value
        ELSE IF IsSome(decoder) THEN Decode(Unwrap(decoder), hex.out)
        ELSE Utf8Lossy(hex.out)

add_value(p, d) ==
    IF IsNone(p.attr_name) THEN p
    ELSE
        LET has_values == p.values # <<>>
            has_token == p.token_start > 0
            raw == Slice(d, p.token_start - 1, p.token_end)
            \* Some(value) of the pending token
            value == IF ~p.remove_crlf THEN Utf8Lossy(raw) ELSE Utf8Lossy(FilterCrLf(raw))
            p0 == IF has_token /\ p.remove_crlf THEN [p EXCEPT !.remove_crlf = FALSE] ELSE p
            attr_name == Unwrap(p.attr_name)
            p1 == [p0 EXCEPT !.attr_name = None]
            plain == IF ~has_values THEN value
                     ELSE Concat(IF has_token THEN Append(p.values, value) ELSE p.values)
            merged == IF has_token
                      THEN (IF has_values THEN Concat(p.values) \o value ELSE value)
                      ELSE Concat(p.values)
            cont_value == IF p.is_encoded_attribute THEN DecodeSegment(p, merged) ELSE merged
            p2 == IF ~p.is_continuation
                  THEN [p1 EXCEPT !.attributes = Append(@, <<attr_name, plain>>)]
                  ELSE LET pe == [p1 EXCEPT !.is_encoded_attribute = FALSE]
                           pp == IF p.attr_position # U32Zero
                                 THEN [pe EXCEPT
                                        !.continuations =
                                            LET c == <<attr_name, p.attr_position, cont_value>>
                                            IN  IF IsSome(@) THEN Some(Append(Unwrap(@), c))
                                                ELSE Some(<<c>>),
                                        !.attr_position = U32Zero]
                                 ELSE [pe EXCEPT !.attributes = Append(@, <<attr_name, cont_value>>)]
                       IN  [pp EXCEPT !.is_continuation = FALSE, !.attr_charset = None]
            p3 == IF has_values THEN [p2 EXCEPT !.values = <<>>] ELSE p2
        IN  IF has_token /\ ~TokenOk(p, d) THEN Panic(p, "add_value: slice")
            ELSE IF ~has_token /\ ~has_values THEN p
            ELSE reset_parser(p3)

\* add_attr_position: the new parser and the returned bool.
add_attr_position(p, d) ==
    IF p.token_start > 0 THEN
        IF ~TokenOk(p, d) THEN [p |-> Panic(p, "add_attr_position: slice"), r |-> FALSE]
        ELSE [p |-> reset_parser([p EXCEPT !.attr_position = parse_u32_or_0(Token(p, d))]),
              r |-> TRUE]
    ELSE [p |-> p, r |-> FALSE]

\* The loop of merge_continuations that adds every continuation as an entry.
MergeAsNewEntries(attributes, continuations) ==
    attributes \o [i \in 1..Len(continuations) |-> <<continuations[i][1], continuations[i][3]>>]

RECURSIVE MergeInto(_, _)
\* The loop of merge_continuations over the sorted, drained continuations.
MergeInto(attributes, continuations) ==
    IF continuations = <<>> THEN attributes
    ELSE
        LET key == Head(continuations)[1]
            value == Head(continuations)[3]
        IN  IF HasAttribute(attributes, key)
            THEN LET i == CHOOSE k \in 1..Len(attributes) :
                              /\ attributes[k][1] = key
                              /\ \A j \in 1..(k - 1) : attributes[j][1] # key
                 IN  MergeInto([attributes EXCEPT ![i] = <<key, @[2] \o value>>],
                               Tail(continuations))
            ELSE MergeInto(Append(attributes, <<key, value>>), Tail(continuations))

\* The continuations left in the order of their arrival.
SortContinuationsByArrival(cs) == cs

\* continuations.sort()
SortContinuations(cs) == SortSeq(cs, ContinuationLess)

merge_continuations(p) ==
    IF IsNone(p.continuations) THEN Panic(p, "merge_continuations: unwrap")
    ELSE [p EXCEPT !.attributes = MergeInto(@, SortContinuations(Unwrap(p.continuations))),
                   !.continuations = Some(<<>>)]

-----------------------------------------------------------------------------
(* parse_content_type: what each arm of the match does to the parser.       *)
(* offset is the stream's offset() after the byte was read.                 *)

\* The code after the match: the byte joins the pending token.
Accumulate(p, offset) ==
    LET p1 == [p EXCEPT !.is_escaped = FALSE, !.is_token_start = FALSE]
    IN  IF p.token_start = 0
        THEN [p1 EXCEPT !.token_start = offset, !.token_end = offset]
        ELSE [p1 EXCEPT !.token_end = offset]

\* The whitespace arm without the span it keeps inside a quoted value.
OnWhitespaceOutsideQuotes(p, offset) == [p EXCEPT !.is_token_start = TRUE]

OnWhitespace(p, offset) ==
    LET p1 == [p EXCEPT !.is_token_start = TRUE]
    IN  IF p.state = "AttributeQuotedValue"
        THEN IF p.token_start = 0
             THEN [p1 EXCEPT !.token_start = offset, !.token_end = offset]
             ELSE [p1 EXCEPT !.token_end = offset]
        ELSE p1

OnUppercase(p, offset) ==
    Accumulate(IF p.is_lower_case /\ p.state \in {"Type", "SubType", "AttributeName"}
               THEN [p EXCEPT !.is_lower_case = FALSE]
               ELSE p,
               offset)

\* The match on the state at a line feed that leaves an open quoted value.
FinalizeUnquotedOnly(p, d) ==
    IF p.state \in {"Type", "AttributeName", "SubType"} THEN add_attribute(p, d).p
    ELSE IF p.state = "AttributeValue" THEN add_value(p, d)
    ELSE p

\* The match on the state at a line feed that is not a fold inside a quoted value.
FinalizeAtLineFeed(p, d) ==
    IF p.state \in {"Type", "AttributeName", "SubType"} THEN add_attribute(p, d).p
    ELSE IF p.state \in {"AttributeValue", "AttributeQuotedValue"} THEN add_value(p, d)
    ELSE p

\* A line feed followed by a space or a tab that ends a quoted value too.
OnLineFoldEndingQuoted(p, d) ==
    [FinalizeAtLineFeed(p, d) EXCEPT !.state = "AttributeName", !.is_token_start = TRUE]

\* A line feed followed by a space or a tab.
OnLineFold(p, d) ==
    IF p.state = "AttributeQuotedValue" THEN [p EXCEPT !.remove_crlf = TRUE]
    ELSE [FinalizeAtLineFeed(p, d) EXCEPT !.state = "AttributeName", !.is_token_start = TRUE]

\* A line feed followed by anything else, or by nothing.
\* The merge of the continuations, when there are any.
MergeIfAny(p) == IF IsSome(p.continuations) THEN merge_continuations(p) ELSE p

OnEndOfField(p, d) == MergeIfAny(FinalizeAtLineFeed(p, d))

\* The '/' arm that moves to SubType without storing the type.
OnSlashWithoutType(p, d) == [reset_parser(p) EXCEPT !.state = "SubType"]

OnSlash(p, d) == [add_attribute(p, d).p EXCEPT !.state = "SubType"]

OnSemicolon(p, d, offset) ==
    IF p.state \in {"Type", "SubType", "AttributeName"}
    THEN [add_attribute(p, d).p EXCEPT !.state = "AttributeName"]
    ELSE IF p.state = "AttributeValue"
    THEN IF ~p.is_escaped THEN [add_value(p, d) EXCEPT !.state = "AttributeName"]
         ELSE [p EXCEPT !.is_escaped = FALSE]
    ELSE Accumulate(p, offset)

\* The '*' arm that takes every '*' after the first as the second.
OnStarWithoutReset(p, d) ==
    IF ~p.is_continuation
    THEN LET r == add_attribute(p, d) IN [r.p EXCEPT !.is_continuation = r.r]
    ELSE [add_attr_position(p, d).p EXCEPT !.is_encoded_attribute = TRUE]

OnStar(p, d) ==
    IF ~p.is_continuation
    THEN LET r == add_attribute(p, d) IN [r.p EXCEPT !.is_continuation = r.r]
    ELSE IF ~p.is_encoded_attribute
    THEN [add_attr_position(p, d).p EXCEPT !.is_encoded_attribute = TRUE]
    ELSE reset_parser(p)

\* '=' in state AttributeName.
\* '=' in state AttributeName that starts a value also without a name.
OnEqualsNameAlways(p, d) ==
    IF ~p.is_continuation
    THEN [add_attribute(p, d).p EXCEPT !.state = "AttributeValue"]
    ELSE IF ~p.is_encoded_attribute
    THEN LET r == add_attr_position(p, d)
         IN  [r.p EXCEPT !.is_encoded_attribute = ~r.r, !.state = "AttributeValue"]
    ELSE [reset_parser(p) EXCEPT !.state = "AttributeValue"]

OnEqualsName(p, d) ==
    IF ~p.is_continuation
    THEN LET r == add_attribute(p, d)
         IN  IF ~r.r THEN r.p ELSE [r.p EXCEPT !.state = "AttributeValue"]
    ELSE IF ~p.is_encoded_attribute
    THEN LET r == add_attr_position(p, d)
         IN  [r.p EXCEPT !.is_encoded_attribute = ~r.r, !.state = "AttributeValue"]
    ELSE [reset_parser(p) EXCEPT !.state = "AttributeValue"]

\* The guard of the encoded-word arm.
EncodedWordGuard(p, d, offset) ==
    /\ p.state \in {"AttributeValue", "AttributeQuotedValue"}
    /\ p.is_token_start
    /\ peek_char(d, offset, QMARK)

\* The encoded-word arm without the flush of the pending literal.
OnEncodedWordWithoutFlush(p, d, offset, token) == [p EXCEPT !.values = Append(@, token)]

\* The encoded-word arm when decode_rfc2047 returned Some(token).
OnEncodedWord(p, d, offset, token) ==
    [add_partial_value(p, d, offset, FALSE) EXCEPT !.values = Append(@, token)]

OnEquals(p, d, offset) ==
    IF p.state = "AttributeName" THEN OnEqualsName(p, d)
    ELSE IF EncodedWordGuard(p, d, offset) /\ decode_rfc2047(d, offset).ok
    THEN OnEncodedWord(p, d, decode_rfc2047(d, offset).pos, decode_rfc2047(d, offset).token)
    ELSE Accumulate(p, offset)

OnQuote(p, d, offset) ==
    IF p.state = "AttributeValue"
    THEN [p EXCEPT !.is_token_start = TRUE, !.state = "AttributeQuotedValue"]
    ELSE IF p.state = "AttributeQuotedValue"
    THEN IF ~p.is_escaped THEN [add_value(p, d) EXCEPT !.state = "AttributeName"]
         ELSE Accumulate([p EXCEPT !.is_escaped = FALSE], offset)
    ELSE p

OnBackslash(p, d, offset) ==
    IF p.state \in {"AttributeQuotedValue", "AttributeValue"}
    THEN IF ~p.is_escaped
         THEN [add_partial_value(p, d, offset, TRUE) EXCEPT !.is_escaped = TRUE]
         ELSE Accumulate([p EXCEPT !.is_escaped = FALSE], offset)
    ELSE IF p.state = "Comment"
    THEN Accumulate([p EXCEPT !.is_escaped = ~p.is_escaped], offset)
    ELSE p

\* The guard of the apostrophe arm.
ApostropheGuard(p) ==
    /\ p.is_encoded_attribute
    /\ ~p.is_escaped
    /\ p.state \in {"AttributeValue", "AttributeQuotedValue"}

OnApostrophe(p, d) == add_attribute_parameter(p, d)

\* The '(' arm that pushes the state after it was set to Comment.
OnOpenParenPushingComment(p, d) ==
    IF ~p.is_escaped
    THEN LET p1 == IF p.state \in {"Type", "AttributeName", "SubType"}
                   THEN add_attribute(p, d).p
                   ELSE IF p.state = "AttributeValue" THEN add_value(p, d)
                   ELSE p
         IN  [p1 EXCEPT !.state_stack = Append(@, "Comment"), !.state = "Comment"]
    ELSE [p EXCEPT !.is_escaped = FALSE]

\* The '(' arm without the push of the interrupted state.
OnOpenParenWithoutPush(p, d) ==
    IF ~p.is_escaped
    THEN LET p1 == IF p.state \in {"Type", "AttributeName", "SubType"}
                   THEN add_attribute(p, d).p
                   ELSE IF p.state = "AttributeValue" THEN add_value(p, d)
                   ELSE p
         IN  [p1 EXCEPT !.state = "Comment"]
    ELSE [p EXCEPT !.is_escaped = FALSE]

OnOpenParen(p, d) ==
    IF ~p.is_escaped
    THEN LET p1 == IF p.state \in {"Type", "AttributeName", "SubType"}
                   THEN add_attribute(p, d).p
                   ELSE IF p.state = "AttributeValue" THEN add_value(p, d)
                   ELSE p
         IN  [p1 EXCEPT !.state_stack = Append(@, p.state), !.state = "Comment"]
    ELSE [p EXCEPT !.is_escaped = FALSE]

\* The ')' arm that takes the oldest entry of the stack, not the newest.
OnCloseParenFromBottom(p) ==
    IF ~p.is_escaped
    THEN IF p.state_stack = <<>> THEN Panic(p, "state_stack.pop().unwrap()")
         ELSE reset_parser([p EXCEPT !.state = p.state_stack[1],
                                     !.state_stack = SubSeq(@, 2, Len(@))])
    ELSE [p EXCEPT !.is_escaped = FALSE]

\* The ')' arm that pops the stack and goes on in state AttributeName.
OnCloseParenToName(p) ==
    IF ~p.is_escaped
    THEN IF p.state_stack = <<>> THEN Panic(p, "state_stack.pop().unwrap()")
         ELSE reset_parser([p EXCEPT !.state = "AttributeName",
                                     !.state_stack = SubSeq(@, 1, Len(@) - 1)])
    ELSE [p EXCEPT !.is_escaped = FALSE]

\* A carriage return that ends the pending token as a space does.
OnCarriageReturnAsSpace(p) == [p EXCEPT !.is_token_start = TRUE]

\* b'\r' => continue: the parser is left as it is.
OnCarriageReturn(p) == p

OnCloseParen(p) ==
    IF ~p.is_escaped
    THEN IF p.state_stack = <<>> THEN Panic(p, "state_stack.pop().unwrap()")
         ELSE reset_parser([p EXCEPT !.state = p.state_stack[Len(p.state_stack)],
                                     !.state_stack = SubSeq(@, 1, Len(@) - 1)])
    ELSE [p EXCEPT !.is_escaped = FALSE]

-----------------------------------------------------------------------------
(* The value returned *)

RunningRet == [kind |-> "Running", c_type |-> <<>>, c_subtype |-> None, attributes |-> None]
EmptyRet == [kind |-> "Empty", c_type |-> <<>>, c_subtype |-> None, attributes |-> None]
PanicRet == [kind |-> "Panic", c_type |-> <<>>, c_subtype |-> None, attributes |-> None]

\* A return that does not look at the type.
ReturnWithoutTypeTest(p) ==
    [kind |-> "ContentType",
     c_type |-> IF IsSome(p.c_type) THEN Unwrap(p.c_type) ELSE <<>>,
     c_subtype |-> p.c_subtype,
     attributes |-> IF p.attributes # <<>> THEN Some(p.attributes) ELSE None]

\* The return at the true end of the field.
Return(p) ==
    IF IsSome(p.c_type)
    THEN [kind |-> "ContentType",
          c_type |-> Unwrap(p.c_type),
          c_subtype |-> p.c_subtype,
          attributes |-> IF p.attributes # <<>> THEN Some(p.attributes) ELSE None]
    ELSE EmptyRet

-----------------------------------------------------------------------------
(* The fields parsed *)

\* Fields of the test table of the source.
TestFields ==
    { B("audio/basic\n"),
      B(" text/plain; charset =us-ascii (Plain text)\n"),
      B("text/plain; charset= \"us-ascii\"\n"),
      B("application/pgp-signature; x-mac-type=70674453;\n    name=PGP.sig\n"),
      B("multipart/mixed; boundary=\"foo\n bar\"\n"),
      B("Message/Partial; number=2; total=3;\n     id=\"oc=jpbe0M2Yt4s@thumper.bellcore.com\"\n"),
      B("message/external-body; access-type=URL;\n    URL*0=\"ftp://\";\n    URL*1=\"cs.utk.edu/pub/moore/bulk-mailer/bulk-mailer.tar\"\n"),
      B("application/x-stuff;\n     title*=us-ascii'en-us'This%20is%20%2A%2A%2Afun%2A%2A%2A\n"),
      B("application/x-stuff\n   title*0*=us-ascii'en'This%20is%20even%20more%20\n   title*1*=%2A%2A%2Afun%2A%2A%2A%20\n   title*2=\"isn't it!\"\n"),
      B("application/pdf\n   filename*0*=iso-8859-1'es'%D1and%FA\n   filename*1*=iso-8859-1'%20r%E1pido\n   filename*2*=\"iso-8859-1' (versi%F3n \\'99 \\\"oficial\\\").pdf\"\n"),
      B(" image/png;\n   name=\"=?utf-8?q?=E3=83=8F=E3=83=AD?=.png\"\n"),
      B("image/jpeg;\n   name=\"=?iso-8859-1?B?4Q==?= =?utf-8?B?w6k=?= =?iso-8859-1?q?=ED?=.jpeg\"\n"),
      B("image/jpeg;\n   name==?iso-8859-1?B?4Q==?= =?utf-8?B?w6k=?= =?iso-8859-1?q?=ED?=.jpeg\n"),
      B(" inline; filename=\"  best \\\"file\\\" ever with \\\\ escaped ' stuff.  \"\n"),
      B("test/\n"),
      B("/invalid\n"),
      B(";\n"),
      B("/ ; name=value\n"),
      B("/plain;charset=us-ascii\n"),
      B("text/plain ;;;;; = ;; name=\"value\"\n"),
      B("=\n"),
      B("text/plain; name=  \n"),
      B("a/b; = \n \n"),
      B("test/test; =\"value\"\n"),
      B("inva/lid; name=\"   \n    \"; test=test\n"),
      B("test/encoded; key4*=us-ascii''foo; key*9999=ba%; key2*0=a; key3*0*=us-ascii'en'xyz; key*0=\"foo\"; key2*1*=b%25; key3*1=plop%; key*1=baz; *=test; =test2;\n"),
      B("text/plain; name*=\"iso-8859-1''HasenundFr%F6sche.txt\"\n"),
      B("malicious/attempt; 1*2*=a; 3**=b; 4***=c; *5**6*=d;*****7*8*=e; 9*10*11*12*13*14=f; 15*x***fff*===g;1 * 999999999999999999 *= h; 18 *=*=*=*=*==i;\n"),
      B("text/plain/format ;charset=us-ascii\n"),
      B("(hello) text (plain) / (world) plain (eod); charset=us-ascii\n"),
      B(" \t\r message/rfc822 \t ; charset=us-ascii\r\n") }

\* The fields of the test table cut before any of their bytes: the stream
\* ends without the line feed that ends the field.
CutFields == UNION { { SubSeq(b, 1, k) : k \in 0..(Len(b) - 1) } : b \in TestFields }

\* Every byte string of at most MaxShort bytes over the bytes the parser
\* tells apart, after a prefix that puts the parser in the type, in an
\* unquoted value or in the value of an encoded segment, and before a
\* final line feed.
MaxShort == 3
ShortAlphabet ==
    {97, 65, SP, LF, CR, SLASH, SEMI, STAR, EQ, DQUOTE, BSLASH, APOS, LPAREN, RPAREN}
ShortPrefixes == {B(""), B("t;a="), B("t;a*1*=")}
ShortStrings == UNION { [1..k -> ShortAlphabet] : k \in 0..MaxShort }
ShortBytes(pre, str) == pre \o str \o <<LF>>

\* Well-formed fields "Te/Su;Na=Va": between any two tokens, before the
\* first and after the last there is nothing, a space or a comment, with
\* at most MaxGaps of the eight places filled.
MaxGaps == 2
GapFill == <<"", " ", "(c)">>
WfGaps == { g \in [1..8 -> 1..3] : Cardinality({i \in 1..8 : g[i] # 1}) <= MaxGaps }
WfBytes(g) ==
    B(GapFill[g[1]] \o "Te" \o GapFill[g[2]] \o "/" \o GapFill[g[3]] \o "Su"
      \o GapFill[g[4]] \o ";" \o GapFill[g[5]] \o "Na" \o GapFill[g[6]] \o "="
      \o GapFill[g[7]] \o "Va" \o GapFill[g[8]] \o "\n")

\* Fields "t/s" followed by at most MaxSegs continuation segments with
\* pairwise different (name, position), in any order.
MaxSegs == 2
SegText(q) ==
    IF q = "0" THEN "k%41" ELSE IF q = "1" THEN "l%42" ELSE IF q = "2" THEN "m"
    ELSE "n%43"
\* What a segment adds to the value of its attribute.
SegOut(q, e) ==
    IF ~e THEN B(SegText(q))
    ELSE IF q = "0" THEN B("kA") ELSE IF q = "1" THEN B("lB") ELSE IF q = "2" THEN B("m")
    ELSE B("nC")
SegPool ==
    { [name |-> "a", pos |-> q, enc |-> e, charset |-> "", lang |-> "", text |-> SegText(q),
       out |-> SegOut(q, e)] :
        q \in {"0", "1", "2", "10"}, e \in BOOLEAN }
    \cup { [name |-> "a", pos |-> "0", enc |-> TRUE, charset |-> "us-ascii", lang |-> "en",
            text |-> SegText("0"), out |-> SegOut("0", TRUE)],
           [name |-> "a", pos |-> "0", enc |-> TRUE, charset |-> "iso-8859-1", lang |-> "es",
            text |-> "%D1k", out |-> <<209, 107>>],
           [name |-> "b", pos |-> "0", enc |-> FALSE, charset |-> "", lang |-> "", text |-> "u",
            out |-> B("u")],
           [name |-> "b", pos |-> "1", enc |-> FALSE, charset |-> "", lang |-> "", text |-> "w",
            out |-> B("w")] }
SegLists ==
    { l \in UNION { [1..k -> SegPool] : k \in 1..MaxSegs } :
        \A i, j \in 1..Len(l) : i # j => <<l[i].name, l[i].pos>> # <<l[j].name, l[j].pos>> }
SegString(g) ==
    ";" \o g.name \o "*" \o g.pos \o (IF g.enc THEN "*" ELSE "") \o "="
    \o (IF g.charset # "" THEN g.charset \o "'" \o g.lang \o "'" ELSE "") \o g.text
RECURSIVE SegListString(_)
SegListString(l) == IF l = <<>> THEN "" ELSE SegString(Head(l)) \o SegListString(Tail(l))
ContBytes(l) == B("t/s" \o SegListString(l) \o "\n")

\* Fields "t/s" followed by at most MaxParams parameters, each well-formed
\* or with a malformed continuation marker.
MaxParams == 2
ParamPool ==
    { [text |-> "b=v", wf |-> TRUE, name |-> "b", value |-> "v"],
      [text |-> "c=\"w x\"", wf |-> TRUE, name |-> "c", value |-> "w x"],
      [text |-> "a***=x", wf |-> FALSE, name |-> "a", value |-> "x"],
      [text |-> "a*x=y", wf |-> FALSE, name |-> "a", value |-> "y"],
      [text |-> "a*99999999999=h", wf |-> FALSE, name |-> "a", value |-> "h"],
      [text |-> "=z", wf |-> FALSE, name |-> "", value |-> "z"],
      [text |-> "a*1=", wf |-> FALSE, name |-> "a", value |-> ""],
      [text |-> "a*1*=\"\"", wf |-> FALSE, name |-> "a", value |-> ""] }
ParamLists == UNION { [1..k -> ParamPool] : k \in 1..MaxParams }
RECURSIVE ParamListString(_)
ParamListString(l) ==
    IF l = <<>> THEN "" ELSE ";" \o Head(l).text \o ParamListString(Tail(l))
MixedBytes(l) == B("t/s" \o ParamListString(l) \o "\n")

\* Fields "t/s;n=<value>" whose value is a literal, a candidate encoded
\* word and a literal, quoted or not.
EwPre == {"", "p ", "p"}
EwWord == {"=?utf-8?q?x_y?=", "=?iso-8859-1?B?4Q==?=", "=?utf-8?q?x_y", "=?utf-8?x?y?="}
EwPost == {"", ".gif", " z"}
EwBytes(pre, word, post, quoted) ==
    B("t/s;n=" \o (IF quoted THEN "\"" ELSE "") \o pre \o word \o post
      \o (IF quoted THEN "\"" ELSE "") \o "\n")

\* Fields made of a prefix and at most MaxChunks pieces that open and close
\* comments, fold the line and start and end parameters.
MaxChunks == 4
ChunkPool == {"(", ")", "X", "\n ", "=v", ";", "n"}
ChunkPrefixes == {"t/s;", "t/s;n="}
ChunkLists == UNION { [1..k -> ChunkPool] : k \in 0..MaxChunks }
RECURSIVE ChunkListString(_)
ChunkListString(l) == IF l = <<>> THEN "" ELSE Head(l) \o ChunkListString(Tail(l))
ChunkBytes(pre, l) == B(pre \o ChunkListString(l) \o "\n")

\* Fields with one comment, whose text is made of the letters c and C and of
\* bytes that are special elsewhere, at each place of a field that has no
\* other c or C.
CommentBefore == {"", "t", "t/", "t/s", "t/s;", "t/s;n", "t/s;n=", "t/s;n=v", "t/s;n=v;"}
CommentTexts ==
    {"(c)", "((c))", "(c(C)c)", "(c;C=c/c*C\"c'c)", "(c\\C)", "(c\n C)", "(C\n c)"}
CommentAfter == {"", "x", "=v", "/s", ";a=b"}
CommentBytes(before, comment, after) == B(before \o comment \o after \o "\n")

\* Fields with one parameter n whose value, quoted or not, is made of at most
\* MaxUnits units: a byte, or a backslash and the byte it escapes. A quoted
\* value may follow a literal.
MaxUnits == 3
PlainUnits == {"a", "A", " ", "\t", "(", ")", ";", "/", "*", "="}
EscapedUnits == {"\\\"", "\\\\", "\\a", "\\ ", "\\;"}
QuotedUnitLists == UNION { [1..k -> PlainUnits \cup EscapedUnits] : k \in 0..MaxUnits }
UnquotedUnitLists == UNION { [1..k -> {"a", "b", "\\;"}] : k \in 0..MaxUnits }
ValuePre == {"", "x"}
RECURSIVE UnitsRaw(_)
UnitsRaw(l) == IF l = <<>> THEN "" ELSE Head(l) \o UnitsRaw(Tail(l))
\* What a unit stands for: the byte, or the escaped byte.
UnitOut(u) == IF Len(u) = 2 THEN SubSeq(u, 2, 2) ELSE u
RECURSIVE UnitsOut(_)
UnitsOut(l) == IF l = <<>> THEN "" ELSE UnitOut(Head(l)) \o UnitsOut(Tail(l))
ValueBytes(pre, l, quoted) ==
    B("t/s;n=" \o pre \o (IF quoted THEN "\"" ELSE "") \o UnitsRaw(l)
      \o (IF quoted THEN "\"" ELSE "") \o "\n")

\* Fields with segments of RFC 2231 parameters (apostrophes, charsets,
\* languages, positions and markers) and fields with malformed parameters.
SegmentFields ==
    { B("t/s;a*0*=utf-8'en'x'y\n"),
      B("t/s;a*0*=utf-8'en'x'y'z\n"),
      B("t/s;a*0*=utf-8'en''x\n"),
      B("t/s;a*=utf-8''x'y\n"),
      B("t/s;a*=utf-8'en'x\n"),
      B("t/s;a*=utf-8''x\n"),
      B("t/s;a*0*=utf-8'en'x;a*1*=utf-8'fr'y\n") }
    \cup { B("t/s;a" \o m \o "=b%25\n") : m \in {"*", "*1", "*1*", "**1", "*0", "*0*", "**"} }
    \cup { B("t/s;a*0*=iso-8859-1'es'%D1;a*1*=%D1\n"),
           B("t/s;a*0*=iso-8859-1'es';a*1*=%D1\n"),
           B("t/s;a*=nope'en'%D1\n"),
           B("t/s;a*=%D1\n") }
    \cup { B("t/s;" \o x \o ";" \o y \o ";" \o z \o ";\n") :
             x, y, z \in {"a*2=y", "a*1=x", "b*1=u", "a=p", "c*3=w"} }
    \cup { B("a/b; =value\n"), B("t/s;=x;b=v\n"), B("t/s;=x=y\n"), B("t/s;= x\n =y\n") }
    \cup { B("t/s;" \o e \o ";b=v\n") : e \in {"a=", "a= ", "a=\t ", "a=\"\"", "a*1=", "a*0*=\"\""} }
    \cup { B("t/s;b=v;" \o e \o "\n") : e \in {"a=", "a= ", "a=\t ", "a=\"\"", "a*1=", "a*0*=\"\""} }
    \cup { B("t/s;n=\"" \o a \o "\n" \o w \o b \o "\"\n") :
             a \in {"", "foo", "foo\r"}, w \in {" ", "\t", "  "}, b \in {"", "bar"} }
    \cup { B("t/s;n=" \o q \o "=?utf-8?q?x_y?=" \o w \o "=?iso-8859-1?B?4Q==?=" \o q \o "\n") :
             q \in {"", "\""}, w \in {" ", "  ", "\t"} }
    \cup { B(b \o "(c\n C)" \o x \o "((d)e)" \o y \o "\n") :
             b \in {"", "t", "t/s"}, x \in {"", "a", "=v"}, y \in {"", "/s", ";a=b"} }
    \cup { B("inva/lid; name=\"   \n") }
    \cup { B("t/s;n=\"" \o c \o "\n") : c \in {"   ", "a", "a b ", " a;b(", "a\\\"b", "a\\"} }
    \cup { B("t/s;a*" \o q \o "=x;a*1=y\n") :
             q \in {"x", "1x", "-1", "+2", "4294967295", "4294967296", "999999999999999999"} }

-----------------------------------------------------------------------------
(* The state machine *)

Start(in, bytes) ==
    /\ input = in
    /\ data = bytes
    /\ pos = 0
    /\ restore_pos = 0
    /\ parser = NewParser
    /\ ret = RunningRet

Init ==
    \/ \E b \in TestFields : Start([family |-> "test"], b)
    \/ \E b \in CutFields : Start([family |-> "cut"], b)
    \/ \E pre \in ShortPrefixes, str \in ShortStrings :
        Start([family |-> "short", prefix |-> pre], ShortBytes(pre, str))
    \/ \E g \in WfGaps : Start([family |-> "wf", gaps |-> g], WfBytes(g))
    \/ \E l \in SegLists : Start([family |-> "cont", segs |-> l], ContBytes(l))
    \/ \E l \in ParamLists : Start([family |-> "mixed", params |-> l], MixedBytes(l))
    \/ \E pre \in EwPre, word \in EwWord, post \in EwPost, quoted \in BOOLEAN :
        Start([family |-> "ew", pre |-> pre, word |-> word, post |-> post, quoted |-> quoted],
              EwBytes(pre, word, post, quoted))
    \/ \E pre \in ChunkPrefixes, l \in ChunkLists :
        Start([family |-> "chunks", prefix |-> pre, chunks |-> l], ChunkBytes(pre, l))
    \/ \E before \in CommentBefore, comment \in CommentTexts, after \in CommentAfter :
        Start([family |-> "comment", before |-> before, comment |-> comment, after |-> after],
              CommentBytes(before, comment, after))
    \/ \E b \in SegmentFields : Start([family |-> "segment"], b)
    \/ \E pre \in ValuePre, l \in QuotedUnitLists :
        Start([family |-> "value", pre |-> pre, units |-> l, quoted |-> TRUE],
              ValueBytes(pre, l, TRUE))
    \/ \E l \in UnquotedUnitLists :
        Start([family |-> "value", pre |-> "", units |-> l, quoted |-> FALSE],
              ValueBytes("", l, FALSE))

Running == ret.kind = "Running"

\* The byte self.next() returns.
Ch == data[pos + 1]

\* The parser after this iteration is p, the cursor is at newpos.
Continue(p, newpos) ==
    /\ parser' = p
    /\ pos' = newpos
    /\ ret' = IF parser'.panic # "" THEN PanicRet ELSE ret
    /\ UNCHANGED <<input, data>>

Whitespace ==
    /\ Running /\ pos < Len(data) /\ Ch \in {SP, TAB}
    /\ Continue(OnWhitespace(parser, pos + 1), pos + 1)
    /\ UNCHANGED restore_pos

Uppercase ==
    /\ Running /\ pos < Len(data) /\ Ch >= UPPER_A /\ Ch <= UPPER_Z
    /\ Continue(OnUppercase(parser, pos + 1), pos + 1)
    /\ UNCHANGED restore_pos

LineFold ==
    /\ Running /\ pos < Len(data) /\ Ch = LF
    /\ peek_next_is_space(data, pos + 1)
    /\ Continue(OnLineFold(parser, data),
                IF parser.state = "AttributeQuotedValue" THEN pos + 1 ELSE pos + 2)
    /\ UNCHANGED restore_pos

EndOfField ==
    /\ Running /\ pos < Len(data) /\ Ch = LF
    /\ ~peek_next_is_space(data, pos + 1)
    /\ parser' = OnEndOfField(parser, data)
    /\ ret' = IF parser'.panic # "" THEN PanicRet ELSE Return(parser')
    /\ pos' = pos + 1
    /\ UNCHANGED <<input, data, restore_pos>>

Slash ==
    /\ Running /\ pos < Len(data) /\ Ch = SLASH
    /\ parser.state = "Type"
    /\ Continue(OnSlash(parser, data), pos + 1)
    /\ UNCHANGED restore_pos

Semicolon ==
    /\ Running /\ pos < Len(data) /\ Ch = SEMI
    /\ Continue(OnSemicolon(parser, data, pos + 1), pos + 1)
    /\ UNCHANGED restore_pos

Star ==
    /\ Running /\ pos < Len(data) /\ Ch = STAR
    /\ parser.state = "AttributeName"
    /\ Continue(OnStar(parser, data), pos + 1)
    /\ UNCHANGED restore_pos

\* The cursor left where the failed attempt left it.
CursorWithoutRestore(p, d, offset, left) ==
    IF EncodedWordGuard(p, d, offset)
    THEN IF decode_rfc2047(d, offset).ok THEN decode_rfc2047(d, offset).pos ELSE left
    ELSE offset

\* The cursor put back before the '=' after a failed attempt.
CursorRestoredBeforeEquals(p, d, offset, left) ==
    IF EncodedWordGuard(p, d, offset)
    THEN IF decode_rfc2047(d, offset).ok THEN decode_rfc2047(d, offset).pos ELSE offset - 1
    ELSE offset

\* The cursor after the '=' arm: after the encoded word when one was decoded,
\* and otherwise just after the '=', where restore() puts it back from
\* wherever the failed attempt left it.
CursorAfterEquals(p, d, offset, left) ==
    IF EncodedWordGuard(p, d, offset)
    THEN IF decode_rfc2047(d, offset).ok THEN decode_rfc2047(d, offset).pos ELSE offset
    ELSE offset

\* Where decode_rfc2047 may leave the cursor when it fails: anywhere after
\* the '='.
CursorsLeft(p, d, offset) ==
    IF EncodedWordGuard(p, d, offset) /\ ~decode_rfc2047(d, offset).ok
    THEN offset..Len(d)
    ELSE {offset}

Equals ==
    /\ Running /\ pos < Len(data) /\ Ch = EQ
    /\ \E left \in CursorsLeft(parser, data, pos + 1) :
        Continue(OnEquals(parser, data, pos + 1),
                 CursorAfterEquals(parser, data, pos + 1, left))
    /\ restore_pos' = IF EncodedWordGuard(parser, data, pos + 1) THEN pos + 1 ELSE restore_pos

Quote ==
    /\ Running /\ pos < Len(data) /\ Ch = DQUOTE
    /\ Continue(OnQuote(parser, data, pos + 1), pos + 1)
    /\ UNCHANGED restore_pos

Backslash ==
    /\ Running /\ pos < Len(data) /\ Ch = BSLASH
    /\ Continue(OnBackslash(parser, data, pos + 1), pos + 1)
    /\ UNCHANGED restore_pos

Apostrophe ==
    /\ Running /\ pos < Len(data) /\ Ch = APOS
    /\ ApostropheGuard(parser)
    /\ Continue(OnApostrophe(parser, data), pos + 1)
    /\ UNCHANGED restore_pos

OpenParen ==
    /\ Running /\ pos < Len(data) /\ Ch = LPAREN
    /\ parser.state # "AttributeQuotedValue"
    /\ Continue(OnOpenParen(parser, data), pos + 1)
    /\ UNCHANGED restore_pos

CloseParen ==
    /\ Running /\ pos < Len(data) /\ Ch = RPAREN
    /\ parser.state = "Comment"
    /\ Continue(OnCloseParen(parser), pos + 1)
    /\ UNCHANGED restore_pos

CarriageReturn ==
    /\ Running /\ pos < Len(data) /\ Ch = CR
    /\ Continue(OnCarriageReturn(parser), pos + 1)
    /\ UNCHANGED restore_pos

\* The byte matches no arm, or only arms whose guard is false.
NoArm(p, c) ==
    /\ c \notin {SP, TAB, LF, CR, SEMI, EQ, DQUOTE, BSLASH}
    /\ ~(c >= UPPER_A /\ c <= UPPER_Z)
    /\ ~(c = SLASH /\ p.state = "Type")
    /\ ~(c = STAR /\ p.state = "AttributeName")
    /\ ~(c = APOS /\ ApostropheGuard(p))
    /\ ~(c = LPAREN /\ p.state # "AttributeQuotedValue")
    /\ ~(c = RPAREN /\ p.state = "Comment")

OtherByte ==
    /\ Running /\ pos < Len(data) /\ NoArm(parser, Ch)
    /\ Continue(Accumulate(parser, pos + 1), pos + 1)
    /\ UNCHANGED restore_pos

\* An end of input that returns what was parsed so far.
ReturnParsedAtEnd(p) == Return(p)

\* The value returned after the loop, when self.next() has returned None.
ReturnAtEnd(p) == EmptyRet

\* self.next() returns None: the loop ends and Empty is returned.
Exhausted ==
    /\ Running /\ pos >= Len(data)
    /\ ret' = ReturnAtEnd(parser)
    /\ UNCHANGED <<input, data, pos, restore_pos, parser>>

Next ==
    \/ Whitespace
    \/ Uppercase
    \/ LineFold
    \/ EndOfField
    \/ Slash
    \/ Semicolon
    \/ Star
    \/ Equals
    \/ Quote
    \/ Backslash
    \/ Apostrophe
    \/ OpenParen
    \/ CloseParen
    \/ CarriageReturn
    \/ OtherByte
    \/ Exhausted

Spec == Init /\ [][Next]_vars

-----------------------------------------------------------------------------
(* Several calls, one after the other *)

\* At most MaxCalls fields are parsed one after the other.
MaxCalls == 3

\* The fields of the calls: between them they take every arm of the match.
CallFields ==
    { B("Text/Plain; charset=\"us-ascii\" (c)\r\n"),
      B("a/b;t*0*=utf-8'en'x%41;\n t*1=\"y\\\"z\"\n"),
      B("a/b;n==?utf-8?q?x"),
      B("a/b;n==?utf-8?q?x_y?=\n"),
      B("/invalid\n"),
      B("t/s;b=v;b=v\n"),
      B("t(c\n C)=v\n"),
      B("a/b;n*1=;m=v\n") }

\* A parser that keeps the attributes of the parser of the call before.
ParserKeepingAttributes(previous) == [NewParser EXCEPT !.attributes = previous.attributes]

\* The parser a call constructs, whatever the parser of the call before was.
ParserOfNextCall(previous) == NewParser

InitCalls == \E b \in CallFields : Start([family |-> "calls", earlier |-> <<>>], b)

\* parse_content_type is called again, on a stream over any of the fields.
\* The field and the result of the call that ended are remembered in input.
NextCall ==
    /\ ~Running
    /\ input.family = "calls"
    /\ Len(input.earlier) < MaxCalls - 1
    /\ \E b \in CallFields : data' = b
    /\ input' = [input EXCEPT !.earlier = Append(@, <<data, ret>>)]
    /\ pos' = 0
    /\ parser' = ParserOfNextCall(parser)
    /\ ret' = RunningRet
    /\ UNCHANGED restore_pos

NextCalls ==
    \/ Next
    \/ NextCall

SpecCalls == InitCalls /\ [][NextCalls]_vars

\* The fields of the calls and the fields that end with an encoded word.
InitLive ==
    \/ \E b \in CallFields : Start([family |-> "calls", earlier |-> <<>>], b)
    \/ \E pre \in EwPre, word \in EwWord, quoted \in BOOLEAN :
        Start([family |-> "ew", pre |-> pre, word |-> word, post |-> "", quoted |-> quoted],
              EwBytes(pre, word, "", quoted))

\* The loop of parse_content_type runs until it returns.
FairSpec == InitLive /\ [][Next]_vars /\ WF_vars(Next)

-----------------------------------------------------------------------------
(* Properties of the result *)

Done == ret.kind # "Running"
Returned == ret.kind = "ContentType"

\* The attribute list of the result, empty when the result has none.
ResultAttributes == IF IsSome(ret.attributes) THEN Unwrap(ret.attributes) ELSE <<>>

\* The values of the entries of the result that have this name, in order.
ValuesOf(name) ==
    LET es == SelectSeq(ResultAttributes, LAMBDA e : e[1] = name)
    IN  [i \in 1..Len(es) |-> es[i][2]]

HasUpper(s) == \E i \in 1..Len(s) : s[i] >= UPPER_A /\ s[i] <= UPPER_Z

\* C1: for every input, parse_content_type never panics (no unreachable!(),
\* no unwrap() of an absent value, no token slice out of range or with its
\* start after its end) and what it returns is a ContentType or Empty.
C1_NeverPanics ==
    /\ parser.panic = ""
    /\ ret.kind \in {"Running", "ContentType", "Empty"}

\* A field with a comment left open at its end has been parsed to a result
\* with attributes, after continuations were merged.
C1_Witness ==
    /\ ret.kind = "ContentType"
    /\ parser.state_stack # <<>>
    /\ IsSome(ret.attributes)
    /\ IsSome(parser.continuations)

\* Fields of the test table that have no type.
NoTypeFields ==
    {B("/invalid\n"), B(";\n"), B("/ ; name=value\n"), B("/plain;charset=us-ascii\n")}

\* C2: the result is Empty whenever no type was finalized by the end of the
\* field, even if a subtype or attributes were parsed, and a ContentType
\* result always carries a type.
C2_EmptyWithoutType ==
    /\ Returned =>
        /\ IsSome(parser.c_type)
        /\ ret.c_type = Unwrap(parser.c_type)
        /\ ret.c_type # <<>>
    /\ Done /\ IsNone(parser.c_type) => ret.kind = "Empty"
    /\ Done /\ data \in NoTypeFields => ret.kind = "Empty"

\* Empty was returned although a subtype and an attribute had been parsed.
C2_Witness ==
    /\ ret.kind = "Empty"
    /\ IsNone(parser.c_type)
    /\ IsSome(parser.c_subtype)
    /\ parser.attributes # <<>>

\* C3: a well-formed field "type/subtype; attr=value" ended by a line feed,
\* with whitespace or comments around its tokens, gives the type, the
\* subtype and the attribute name lowercased and exactly one attribute, its
\* value byte for byte.
C3_WellFormedField ==
    input.family = "wf" /\ Done =>
        ret = [kind |-> "ContentType",
               c_type |-> B("te"),
               c_subtype |-> Some(B("su")),
               attributes |-> Some(<< <<B("na"), B("Va")>> >>)]

\* C4: no two entries of the attribute list of a result have the same name.
C4_UniqueNames ==
    Returned =>
        \A i, j \in 1..Len(ResultAttributes) :
            i # j => ResultAttributes[i][1] # ResultAttributes[j][1]

\* C5: the type, the subtype and every attribute name of a result contain
\* no ASCII uppercase letter.
C5_LowercaseNames ==
    Returned =>
        /\ ~HasUpper(ret.c_type)
        /\ IsSome(ret.c_subtype) => ~HasUpper(Unwrap(ret.c_subtype))
        /\ \A i \in 1..Len(ResultAttributes) : ~HasUpper(ResultAttributes[i][1])

\* C6: no attribute value of a result contains a carriage return or a line
\* feed.
C6_NoRawLineBreaks ==
    Returned =>
        \A i \in 1..Len(ResultAttributes) :
            \A k \in 1..Len(ResultAttributes[i][2]) :
                ResultAttributes[i][2][k] \notin {CR, LF}

\* The declared position of a segment of the pool.
PosNum(q) == IF q = "0" THEN 0 ELSE IF q = "1" THEN 1 ELSE IF q = "2" THEN 2 ELSE 10

SegsOf(l, name) == SelectSeq(l, LAMBDA g : g.name = name)

RECURSIVE InPositionOrder(_)
\* What the segments add, concatenated in ascending declared position.
InPositionOrder(l) ==
    IF l = <<>> THEN <<>>
    ELSE LET i == CHOOSE k \in 1..Len(l) :
                      \A j \in 1..Len(l) : PosNum(l[k].pos) <= PosNum(l[j].pos)
         IN  l[i].out \o InPositionOrder(SubSeq(l, 1, i - 1) \o SubSeq(l, i + 1, Len(l)))

\* C7: the value emitted for an attribute name is the concatenation of its
\* continuation segments in ascending declared position, whatever the order
\* of the segments in the field.
C7_PositionOrder ==
    input.family = "cont" /\ Returned =>
        \A i \in 1..Len(input.segs) :
            ValuesOf(B(input.segs[i].name)) =
                << InPositionOrder(SegsOf(input.segs, input.segs[i].name)) >>

\* Position 10 of an attribute came before its position 2.
C7_Witness ==
    /\ input.family = "cont"
    /\ Returned
    /\ Len(input.segs) = 2
    /\ input.segs[1].name = input.segs[2].name
    /\ input.segs[1].pos = "10"
    /\ input.segs[2].pos = "2"

\* C8: a field that mixes well-formed parameters with malformed continuation
\* markers is parsed to its end and every well-formed parameter is in the
\* result under its own name with its own value.
C8_WellFormedSurvive ==
    input.family = "mixed" /\ Done =>
        /\ Returned
        /\ \A i \in 1..Len(input.params) :
            input.params[i].wf =>
                \E k \in 1..Len(ResultAttributes) :
                    ResultAttributes[k] = <<B(input.params[i].name), B(input.params[i].value)>>

\* C9: for "name*0*=charset'lang'text0" and further segments the result has
\* name-language = lang and name = text0 percent-decoded and decoded from
\* the charset, followed by the later segments in position order.
C9_CharsetSegment ==
    input.family = "cont" /\ Returned =>
        \A i \in 1..Len(input.segs) :
            LET g == input.segs[i]
                later == SelectSeq(input.segs, LAMBDA h : h.name = g.name /\ h.pos # g.pos)
            IN  g.charset # "" =>
                    /\ ValuesOf(B(g.name \o "-language")) = <<B(g.lang)>>
                    /\ ValuesOf(B(g.name)) = <<g.out \o InPositionOrder(later)>>

\* A segment 0 in ISO-8859-1 was followed by an encoded segment of the same
\* attribute.
C9_Witness ==
    /\ input.family = "cont"
    /\ Returned
    /\ Len(input.segs) = 2
    /\ input.segs[1].charset = "iso-8859-1"
    /\ input.segs[2].name = input.segs[1].name
    /\ input.segs[2].enc

\* The text of the encoded words that are well-formed.
EwOut(word) ==
    IF word = "=?utf-8?q?x_y?=" THEN Some(B("x y"))
    ELSE IF word = "=?iso-8859-1?B?4Q==?=" THEN Some(<<225>>)
    ELSE None

\* The literal after the word, without the whitespace that separates them in
\* an unquoted value.
EwAfter(post, quoted) == IF ~quoted /\ post = " z" THEN "z" ELSE post

\* C10: when '=' at a token start in a value is followed by '?' and the
\* encoded word is accepted, its decoded text takes its place in the value,
\* after the literal accumulated before it and before the literal after it,
\* and the '=' is not emitted.
C10_EncodedWord ==
    input.family = "ew" /\ Returned /\ IsSome(EwOut(input.word)) /\ input.pre # "p" =>
        ValuesOf(B("n")) =
            << B(input.pre) \o Unwrap(EwOut(input.word))
                 \o B(EwAfter(input.post, input.quoted)) >>

\* An unquoted value with a literal, an accepted word and a literal.
C10_Witness ==
    /\ input.family = "ew"
    /\ Returned
    /\ input.pre = "p "
    /\ input.word = "=?iso-8859-1?B?4Q==?="
    /\ input.post = ".gif"
    /\ ~input.quoted

\* The texts of the result: its type, its subtype, and the names and the
\* values of its attributes.
ResultTexts ==
    {ret.c_type}
    \cup (IF IsSome(ret.c_subtype) THEN {Unwrap(ret.c_subtype)} ELSE {})
    \cup {ResultAttributes[i][1] : i \in 1..Len(ResultAttributes)}
    \cup {ResultAttributes[i][2] : i \in 1..Len(ResultAttributes)}

HasByte(s, bytes) == \E i \in 1..Len(s) : s[i] \in bytes

\* C11: no byte that lies inside a comment, at any nesting depth, appears in
\* the type, the subtype or any attribute name or value of the result.
C11_CommentsExcluded ==
    input.family = "comment" /\ Returned =>
        \A s \in ResultTexts : ~HasByte(s, {99, 67})

\* A line feed is the next byte, outside a quoted value.
AtLineFeed ==
    Running /\ pos < Len(data) /\ Ch = LF /\ parser.state # "AttributeQuotedValue"

\* The pending token, lowercased when it has an uppercase letter.
PendingName ==
    LET token == Utf8Lossy(SubSeq(data, parser.token_start, parser.token_end))
    IN  IF HasUpper(token) THEN make_ascii_lowercase(token) ELSE token

\* What was pending before the step has been finalized by the step: a token
\* of the type, of the subtype or of a name is stored, a value is emitted
\* under its name, and no token is pending any more.
PendingFinalized ==
    /\ parser'.token_start = 0
    /\ parser'.values = <<>>
    /\ parser.token_start > 0 =>
        /\ parser.state = "Type" => parser'.c_type = Some(PendingName)
        /\ parser.state = "SubType" => parser'.c_subtype = Some(PendingName)
        /\ parser.state = "AttributeName" => parser'.attr_name = Some(PendingName)
    /\ /\ parser.state = "AttributeValue"
       /\ IsSome(parser.attr_name)
       /\ parser.token_start > 0 \/ parser.values # <<>>
       => IsNone(parser'.attr_name)

\* C12: at a line feed outside a quoted value, if the next byte is a space
\* or a tab, what is pending is finalized, that byte is consumed, the state
\* becomes AttributeName and the parse goes on; otherwise the parse ends at
\* the line feed, and nothing changes the result afterwards.
C12_LineFeed ==
    [][ /\ AtLineFeed =>
            IF peek_next_is_space(data, pos + 1)
            THEN /\ PendingFinalized
                 /\ pos' = pos + 2
                 /\ parser'.state = "AttributeName"
                 /\ ret'.kind = "Running"
            ELSE /\ ret'.kind \in {"ContentType", "Empty"}
                 /\ pos' = pos + 1
        /\ ~Running => ret' = ret ]_vars

C14_Terminates ==
    /\ [][Running => \/ pos' > pos /\ pos' <= Len(data) /\ ret'.kind = "Running"
                     \/ ret'.kind \in {"ContentType", "Empty"} /\ pos < Len(data) /\ Ch = LF
                     \/ ret'.kind = "Empty" /\ pos = Len(data)]_vars
    /\ <>(ret.kind \in {"ContentType", "Empty"})

\* A parse ended after an encoded-word attempt had failed.
C14_Witness ==
    /\ input.family = "ew"
    /\ EwOut(input.word) = None
    /\ input.pre # "p"
    /\ restore_pos > 0
    /\ Done

\* An iteration at a '=' that starts an encoded-word attempt, and the attempt
\* fails.
FailedAttempt ==
    /\ Running /\ pos < Len(data) /\ Ch = EQ
    /\ EncodedWordGuard(parser, data, pos + 1)
    /\ ~decode_rfc2047(data, pos + 1).ok

\* C15: when the encoded-word attempt started at "=?" fails, the cursor is
\* back just after the '=', no field of the parser has changed but those that
\* accumulating an ordinary byte changes, and the '=' is the last byte of the
\* pending token.
C15_FailedAttempt ==
    [][FailedAttempt =>
        /\ pos' = pos + 1
        /\ ret' = ret
        /\ parser' = [parser EXCEPT !.is_escaped = FALSE,
                                     !.is_token_start = FALSE,
                                     !.token_start = IF @ = 0 THEN pos + 1 ELSE @,
                                     !.token_end = pos + 1]]_vars

\* The iteration after a failed attempt: the '=' ends the pending token.
C15_Witness ==
    /\ input.family = "ew"
    /\ EwOut(input.word) = None
    /\ Running
    /\ restore_pos > 0
    /\ pos = restore_pos
    /\ parser.token_end = pos
    /\ ~parser.is_token_start
    /\ data[pos] = EQ

\* The markers of a continuation are those of a parser that has read none.
MarkersClear(p) ==
    /\ ~p.is_continuation
    /\ ~p.is_encoded_attribute
    /\ p.attr_position = U32Zero
    /\ IsNone(p.attr_charset)

\* C16: whenever the parser starts to read a parameter name after a ';' or
\* a fold, is_continuation and is_encoded_attribute are false, attr_position
\* is 0 and attr_charset is absent.
C16_MarkersClear ==
    [][Running /\ pos < Len(data) /\ Ch \in {SEMI, LF}
         /\ ret'.kind = "Running" /\ parser'.state = "AttributeName"
       => MarkersClear(parser')]_vars

\* The field has a value made of units, and this unit is one of them.
HasUnit(u) == \E i \in 1..Len(input.units) : input.units[i] = u

\* C17: in an unquoted value, a ';' after an unescaped backslash does not
\* end the value and is part of the emitted value as a literal ';'.
C17_EscapedSemicolon ==
    input.family = "value" /\ ~input.quoted /\ HasUnit("\\;") /\ Returned =>
        ValuesOf(B("n")) = << B(UnitsOut(input.units)) >>

\* The value of the field is quoted and none of its units is an escape.
QuotedPlain ==
    /\ input.family = "value"
    /\ input.quoted
    /\ \A i \in 1..Len(input.units) : input.units[i] \in PlainUnits

\* C18: the double quote that opens a quoted value and the unescaped double
\* quote that closes it are in no value of the result, whether the opening
\* quote is the first byte of the value or follows a literal.
C18_QuotesExcluded ==
    QuotedPlain /\ Returned =>
        \A i \in 1..Len(ResultAttributes) : ~HasByte(ResultAttributes[i][2], {DQUOTE})

\* The value of the field is quoted, starts the value position and has an
\* escape among its units.
QuotedEscaped ==
    /\ input.family = "value"
    /\ input.quoted
    /\ input.pre = ""
    /\ \E i \in 1..Len(input.units) : input.units[i] \in EscapedUnits

\* C19: inside a quoted value, an unescaped backslash is not in the emitted
\* value, and the byte after it is in the value as it is and does nothing
\* else: the value is the bytes its units stand for.
C19_QuotedEscapes ==
    QuotedEscaped /\ Returned => ValuesOf(B("n")) = << B(UnitsOut(input.units)) >>

\* The number of bytes of a field of the value family before its units.
ValueStart == Len("t/s;n=" \o input.pre \o "\"")

\* C20: inside a quoted value, the bytes that are neither a quote, a
\* backslash, a line break nor a trigger are kept as they are and leave the
\* state alone: spaces and tabs are kept wherever they are, and '(', ')',
\* ';', '/', '*' and '=' are literal.
C20_QuotedVerbatim ==
    QuotedPlain /\ input.pre = "" /\ input.units # <<>> =>
        /\ Running /\ pos \in ValueStart..(ValueStart + Len(input.units)) =>
              parser.state = "AttributeQuotedValue"
        /\ Done =>
              /\ Returned
              /\ ResultAttributes = << <<B("n"), B(UnitsRaw(input.units))>> >>

\* A quoted value with a space on each side of a ';'.
C20_Witness ==
    /\ QuotedPlain /\ input.pre = ""
    /\ input.units = <<" ", ";", " ">>
    /\ Returned
    /\ ValuesOf(B("n")) = << B(" ; ") >>

\* C21: a line fold inside an unquoted value is a single space of the
\* emitted value.
C21_FoldInUnquotedValue ==
    \A c \in { <<<<"X", "\n ", "X">>, "X X">>,
                <<<<"X", "X", "\n ", "X">>, "XX X">>,
                <<<<"X", "\n ", "X", "X">>, "X XX">> } :
        /\ input.family = "chunks"
        /\ input.prefix = "t/s;n="
        /\ input.chunks = c[1]
        /\ Returned
        => ResultAttributes = << <<B("n"), B(c[2])>> >>

\* C22: in an encoded segment, an apostrophe after the second one is a
\* literal apostrophe of the emitted value, between the text before it and
\* the text after it.
C22_LaterApostrophes ==
    \A c \in { <<"t/s;a*0*=utf-8'en'x'y\n", "x'y">>,
                <<"t/s;a*0*=utf-8'en'x'y'z\n", "x'y'z">>,
                <<"t/s;a*0*=utf-8'en''x\n", "'x">> } :
        input.family = "segment" /\ Returned /\ data = B(c[1])
        => ValuesOf(B("a")) = << B(c[2]) >>

\* C23: in an encoded segment the text before the first apostrophe is the
\* charset and is not in the value; the text between the first and the second
\* apostrophe is the value of the attribute a-language, unless there is one
\* already; an empty language stores no such attribute.
C23_CharsetAndLanguage ==
    \A c \in { <<"t/s;a*=utf-8'en'x\n", <<B("en")>> >>,
                <<"t/s;a*0*=utf-8'en'x;a*1*=utf-8'fr'y\n", <<B("en")>> >>,
                <<"t/s;a*=utf-8''x\n", <<>> >>,
                <<"t/s;a*=utf-8''x'y\n", <<>> >> } :
        input.family = "segment" /\ Returned /\ data = B(c[1])
        => /\ ValuesOf(B("a-language")) = c[2]
           /\ Len(ValuesOf(B("a"))) = 1
           /\ ~HasByte(ValuesOf(B("a"))[1], {Ord("-"), Ord("8")})

C25_BadPosition ==
    \A q \in {"x", "1x", "-1", "+2", "4294967296", "999999999999999999"} :
        input.family = "segment" /\ Returned /\ data = B("t/s;a*" \o q \o "=x;a*1=y\n")
        => ResultAttributes = << <<B("a"), B("xy")>> >>

\* C26: the percent sequences of a continuation segment are decoded if and
\* only if a '*' stands directly before the '=' of the segment; otherwise
\* the segment keeps them as they are.
C26_PercentOnlyWhenEncoded ==
    \A m \in {"*", "*1", "*1*", "**1", "*0", "*0*", "**"} :
        input.family = "segment" /\ Returned /\ data = B("t/s;a" \o m \o "=b%25\n")
        => ValuesOf(B("a")) =
               << IF SubSeq(m, Len(m), Len(m)) = "*" THEN B("b%") ELSE B("b%25") >>

\* C27: an encoded segment is decoded with the charset of its own prefix
\* only; without one, or with a name the registry does not know, its bytes
\* are decoded as UTF-8 with U+FFFD for what is invalid, and the parse
\* returns a content type.
C27_OwnCharset ==
    \A c \in { <<"t/s;a*0*=iso-8859-1'es'%D1;a*1*=%D1\n", <<209, 65533>> >>,
                <<"t/s;a*0*=iso-8859-1'es';a*1*=%D1\n", <<65533>> >>,
                <<"t/s;a*=nope'en'%D1\n", <<65533>> >>,
                <<"t/s;a*=%D1\n", <<65533>> >> } :
        input.family = "segment" /\ Done /\ data = B(c[1])
        => Returned /\ ValuesOf(B("a")) = << c[2] >>

\* C28: at the line feed that ends the field, the deferred segments, no two
\* of one name and one position, are merged in the order of their names and
\* then of their positions: the
\* segments of a name that has entries are appended to the first of them, in
\* ascending position, and a name that has none gets one new entry, after
\* the entries there were, that holds its segments in ascending position.
C28_Merge ==
    [][/\ Running /\ pos < Len(data) /\ Ch = LF
       /\ input.family = "segment"
       /\ ret'.kind = "ContentType"
       /\ parser.state = "AttributeName" /\ parser.token_start = 0
       /\ IsSome(parser.continuations)
       =>
       LET A == parser.attributes
           C == Unwrap(parser.continuations)
           R == ResultAttributes'
           At(n, q) == {k \in 1..Len(C) : C[k][1] = n /\ C[k][2] = <<48 + q>>}
           V(n, q) == IF At(n, q) = {} THEN <<>> ELSE C[CHOOSE k \in At(n, q) : TRUE][3]
           Cat(n) == V(n, 1) \o V(n, 2) \o V(n, 3)
           New == {C[k][1] : k \in 1..Len(C)} \ {A[i][1] : i \in 1..Len(A)}
       IN  (\A k, l \in 1..Len(C) : k # l => <<C[k][1], C[k][2]>> # <<C[l][1], C[l][2]>>) =>
           /\ Len(R) = Len(A) + Cardinality(New)
           /\ \A i \in 1..Len(A) :
                 /\ R[i][1] = A[i][1]
                 /\ R[i][2] = IF \A j \in 1..(i - 1) : A[j][1] # A[i][1]
                               THEN A[i][2] \o Cat(A[i][1])
                               ELSE A[i][2]
           /\ \A i \in (Len(A) + 1)..Len(R) :
                 /\ R[i][1] \in New
                 /\ R[i][2] = Cat(R[i][1])
                 /\ \A j \in (i + 1)..Len(R) : SeqLess(R[i][1], R[j][1])]_vars

\* A field whose parameter a has positions 2 and 1 and no base value, and
\* whose parameter c has position 3 only.
C28_Witness ==
    /\ input.family = "segment"
    /\ Returned
    /\ data = B("t/s;a*2=y;c*3=w;a*1=x;\n")
    /\ ResultAttributes = << <<B("a"), B("xy")>>, <<B("c"), B("w")>> >>

C30_EmptyValue ==
    input.family = "segment" /\ Done =>
        \A e \in {"a=", "a= ", "a=\t ", "a=\"\"", "a*1=", "a*0*=\"\""} :
            data \in {B("t/s;" \o e \o ";b=v\n"), B("t/s;b=v;" \o e \o "\n")}
            => Returned /\ ResultAttributes = << <<B("b"), B("v")>> >>

\* C31: a '/' read in state Type stores the pending token as the type and
\* moves to SubType; a '/' read in any other state joins the pending token
\* as any ordinary byte does: text/plain/format has the subtype plain/format
\* and test/ has no subtype.
C31_Slash ==
    /\ [][Running /\ pos < Len(data) /\ Ch = SLASH =>
            /\ pos' = pos + 1 /\ ret' = ret
            /\ parser.state = "Type" /\ parser.token_start > 0 =>
                  parser' = [parser EXCEPT !.state = "SubType",
                                           !.c_type = Some(PendingName),
                                           !.is_lower_case = TRUE,
                                           !.token_start = 0,
                                           !.is_token_start = TRUE]
            /\ parser.state = "Type" /\ parser.token_start = 0 =>
                  parser' = [parser EXCEPT !.state = "SubType"]
            /\ parser.state # "Type" =>
                  parser' = [parser EXCEPT !.is_escaped = FALSE,
                                           !.is_token_start = FALSE,
                                           !.token_start = IF @ = 0 THEN pos + 1 ELSE @,
                                           !.token_end = pos + 1]]_vars
    /\ [](input.family = "test" /\ Done =>
            /\ data = B("text/plain/format ;charset=us-ascii\n") =>
                  ret.c_type = B("text") /\ ret.c_subtype = Some(B("plain/format"))
            /\ data = B("test/\n") =>
                  ret.c_type = B("test") /\ ret.c_subtype = None)

\* The type and a subtype with a '/' in it.
C31_Witness ==
    /\ input.family = "test" /\ Returned
    /\ data = B("text/plain/format ;charset=us-ascii\n")
    /\ ret.c_type = B("text") /\ ret.c_subtype = Some(B("plain/format"))

\* C32: an unescaped ')' read in state Comment takes the state that the '('
\* of the comment stored, which is the state the parser was in when it read
\* that '(', and leaves no token pending; after a comment with any nesting
\* the parser is in the state the text before the comment had brought it to.
C32_CommentResumes ==
    /\ [][Running /\ pos < Len(data) /\ Ch = LPAREN /\ ~parser.is_escaped
            /\ parser.state # "AttributeQuotedValue"
          => /\ parser'.state = "Comment"
             /\ parser'.state_stack = Append(parser.state_stack, parser.state)]_vars
    /\ [][Running /\ pos < Len(data) /\ Ch = RPAREN /\ ~parser.is_escaped
            /\ parser.state = "Comment"
          => /\ parser.state_stack # <<>>
             /\ parser'.state = parser.state_stack[Len(parser.state_stack)]
             /\ parser'.state_stack = SubSeq(parser.state_stack, 1, Len(parser.state_stack) - 1)
             /\ parser'.token_start = 0]_vars
    /\ [](/\ input.family = "comment"
           /\ input.comment \in {"(c)", "((c))", "(c(C)c)", "(c;C=c/c*C\"c'c)", "(c\\C)"}
           /\ pos = Len(input.before) + Len(input.comment)
           => /\ parser.state_stack = <<>>
              /\ parser.token_start = 0
              /\ parser.state =
                    IF input.before \in {"", "t"} THEN "Type"
                    ELSE IF input.before \in {"t/", "t/s"} THEN "SubType"
                    ELSE IF input.before \in {"t/s;n=", "t/s;n=v"} THEN "AttributeValue"
                    ELSE "AttributeName")

\* A comment with a comment inside it has been closed in a value.
C32_Witness ==
    /\ input.family = "comment"
    /\ input.comment = "(c(C)c)"
    /\ input.before = "t/s;n="
    /\ pos = Len(input.before) + Len(input.comment)
    /\ parser.state = "AttributeValue"
    /\ parser.state_stack = <<>>

\* C33: a line feed followed by a space or a tab inside a quoted value does
\* not end the value and leaves the state alone: the value goes on and keeps
\* the whitespace after the line feed.
C33_FoldInQuotedValue ==
    /\ [][Running /\ pos < Len(data) /\ Ch = LF /\ pos + 1 < Len(data)
            /\ data[pos + 2] \in {SP, TAB} /\ parser.state = "AttributeQuotedValue"
          => /\ parser' = [parser EXCEPT !.remove_crlf = TRUE]
             /\ pos' = pos + 1 /\ ret' = ret]_vars
    /\ [](input.family = "segment" /\ Done =>
            \A a \in {"", "foo", "foo\r"}, w \in {" ", "\t", "  "}, b \in {"", "bar"} :
                data = B("t/s;n=\"" \o a \o "\n" \o w \o b \o "\"\n")
                => /\ Returned
                   /\ ResultAttributes =
                        << <<B("n"), B((IF a = "" THEN "" ELSE "foo") \o w \o b)>> >>)

\* The value of the claim: foo, a fold, bar.
C33_Witness ==
    /\ input.family = "segment" /\ Returned
    /\ data = B("t/s;n=\"foo\n bar\"\n")
    /\ ResultAttributes = << <<B("n"), B("foo bar")>> >>

\* C34: a quoted value that is open at the line feed that ends the field is
\* emitted with what was read of it.
C34_OpenQuotedValue ==
    /\ input.family = "segment" /\ Done /\ data = B("inva/lid; name=\"   \n")
       => Returned /\ ResultAttributes = << <<B("name"), B("   ")>> >>
    /\ input.family = "segment" /\ Done =>
         \A c \in { <<"   ", "   ">>, <<"a", "a">>, <<"a b ", "a b ">>, <<" a;b(", " a;b(">>,
                     <<"a\\\"b", "a\"b">>, <<"a\\", "a">> } :
             data = B("t/s;n=\"" \o c[1] \o "\n")
             => Returned /\ ResultAttributes = << <<B("n"), B(c[2])>> >>

\* An open quoted value with an escaped quote in it.
C34_Witness ==
    /\ input.family = "segment" /\ Returned
    /\ data = B("t/s;n=\"a\\\"b\n")
    /\ ResultAttributes = << <<B("n"), B("a\"b")>> >>

\* C35: the whitespace between two adjacent encoded words is in the emitted
\* value when the words are in a quoted value and is not when they are in an
\* unquoted value.
C35_BetweenEncodedWords ==
    /\ input.family = "test" /\ Done =>
         /\ data = B("image/jpeg;\n   name=\"=?iso-8859-1?B?4Q==?= =?utf-8?B?w6k=?= =?iso-8859-1?q?=ED?=.jpeg\"\n")
              => ValuesOf(B("name")) = << <<225, 32, 233, 32, 237>> \o B(".jpeg") >>
         /\ data = B("image/jpeg;\n   name==?iso-8859-1?B?4Q==?= =?utf-8?B?w6k=?= =?iso-8859-1?q?=ED?=.jpeg\n")
              => ValuesOf(B("name")) = << <<225, 233, 237>> \o B(".jpeg") >>
    /\ input.family = "segment" /\ Done =>
         \A q \in {"", "\""}, w \in {" ", "  ", "\t"} :
             data = B("t/s;n=" \o q \o "=?utf-8?q?x_y?=" \o w \o "=?iso-8859-1?B?4Q==?=" \o q \o "\n")
             => /\ Returned
                /\ ResultAttributes =
                     << <<B("n"), B("x y" \o (IF q = "" THEN "" ELSE w)) \o <<225>> >> >>

\* Two encoded words in a quoted value with two spaces between them.
C35_Witness ==
    /\ input.family = "segment" /\ Returned
    /\ data = B("t/s;n=\"=?utf-8?q?x_y?=  =?iso-8859-1?B?4Q==?=\"\n")
    /\ ResultAttributes = << <<B("n"), B("x y  ") \o <<225>> >> >>

\* C36: reading a CR byte changes no field of the parser, in every state; only
\* the cursor moves, by one byte.
C36_CarriageReturnNoOp ==
    [][(Running /\ pos < Len(data) /\ Ch = CR)
       => /\ parser' = parser
          /\ pos' = pos + 1
          /\ ret' = ret]_vars

\* A CR has just been read inside a quoted value with a token pending.
C36_Witness ==
    /\ Running /\ pos >= 1 /\ data[pos] = CR
    /\ parser.state = "AttributeQuotedValue"
    /\ parser.token_start > 0

\* C37: when the input ends while the loop is still running, the result is
\* Empty whatever the parser holds; a content type is returned only at a line
\* feed that is not followed by a space or a tab.
C37_ExhaustedIsEmpty ==
    /\ [][(Running /\ pos >= Len(data)) => ret' = EmptyRet]_vars
    /\ [](Returned =>
            /\ pos >= 1 /\ data[pos] = LF
            /\ (pos < Len(data) => data[pos + 1] \notin {SP, TAB}))

\* The input ended after a type, a subtype and an attribute were finalized.
C37_Witness ==
    /\ ret = EmptyRet /\ pos >= Len(data)
    /\ IsSome(parser.c_type) /\ IsSome(parser.c_subtype)
    /\ parser.attributes # <<>>

\* C38: leaving Comment aside, the states are visited in one direction: Type,
\* then SubType, then the attribute states. The state the parser was in last
\* outside a comment is its state, or in a comment the topmost entry of the
\* stack that is not Comment: that state is the one a comment was opened in,
\* it does not change while the comment lasts, and its rank never decreases.
C38_OneDirection ==
    [][LET Rank(s) == IF s = "Type" THEN 1 ELSE IF s = "SubType" THEN 2 ELSE 3
           Outside(p) == { i \in 1..Len(p.state_stack) : p.state_stack[i] # "Comment" }
           Top(p) == CHOOSE i \in Outside(p) : \A j \in Outside(p) : j <= i
           Last(p) == IF p.state # "Comment" THEN p.state ELSE p.state_stack[Top(p)]
       IN  /\ (parser.state = "Comment" => Outside(parser) # {})
           /\ (parser'.state = "Comment" => Outside(parser') # {})
           /\ (parser.state # "Comment" /\ parser'.state = "Comment")
                 => Last(parser') = parser.state
           /\ (parser.state = "Comment" /\ parser'.state = "Comment")
                 => Last(parser') = Last(parser)
           /\ (parser.state = "Comment" /\ parser'.state # "Comment")
                 => Rank(parser'.state) >= Rank(Last(parser))
           /\ (parser.state # "Comment" /\ parser'.state # "Comment")
                 => Rank(parser'.state) >= Rank(parser.state)]_vars

\* An attribute value is being read while the stack still holds the Type a
\* comment was opened in: a fold has ended that comment.
C38_Witness ==
    /\ Running
    /\ parser.state = "AttributeValue"
    /\ \E i \in 1..Len(parser.state_stack) : parser.state_stack[i] = "Type"

\* C39: in every reachable state, in state Comment the stack is not empty and
\* a Comment entry of the stack is never its lowest entry; and the pop at an
\* unescaped ')' in state Comment always finds an entry, also after a fold
\* has set the state to AttributeName inside an open comment.
C39_StackUnderComment ==
    /\ [](/\ (parser.state = "Comment" => parser.state_stack # <<>>)
          /\ \A i \in 1..Len(parser.state_stack) :
                parser.state_stack[i] = "Comment" => i > 1)
    /\ [][(/\ Running /\ pos < Len(data) /\ Ch = RPAREN
           /\ parser.state = "Comment" /\ ~parser.is_escaped)
          => /\ parser'.panic = ""
             /\ parser'.state = parser.state_stack[Len(parser.state_stack)]
             /\ Len(parser'.state_stack) = Len(parser.state_stack) - 1]_vars

\* A nested comment is open after a fold ended a comment opened in Type: the
\* stack holds Type, the AttributeName the fold set, and Comment.
C39_Witness ==
    /\ Running
    /\ parser.state = "Comment"
    /\ parser.state_stack = <<"Type", "AttributeName", "Comment">>

\* C40: whenever the parser enters AttributeName from AttributeValue, from
\* AttributeQuotedValue or from Comment, no token is pending afterwards
\* (token_start = 0).
C40_NoTokenIntoName ==
    [][(/\ parser.state \in {"AttributeValue", "AttributeQuotedValue", "Comment"}
        /\ parser'.state = "AttributeName")
       => parser'.token_start = 0]_vars

====
